---- MODULE Spec2Model ----
(***************************************************************************)
(* Model of codeallawsnohead.py: a sequential scraper that reads product   *)
(* URLs from a spreadsheet, visits each page in a fresh browser session,   *)
(* extracts product fields and vehicle fitments, expands them into output  *)
(* rows and checkpoints the accumulated rows to an output spreadsheet.     *)
(*                                                                         *)
(* Python values are represented as follows.                               *)
(*   str            a TLA+ string                                          *)
(*   dict           a function from strings (keys) to strings              *)
(*   list           a sequence                                             *)
(*   Optional list  a record [is_none, rows]                               *)
(*   absent element the string Absent, or a record with present = FALSE    *)
(*   NaN cell       the string NaN                                         *)
(***************************************************************************)
EXTENDS Integers, Sequences, FiniteSets, TLC

(***************************************************************************)
(* Bounds of the model.                                                    *)
(***************************************************************************)
\* longest input table of the general specification
MaxRows == 2

\* length of the input tables of the long-batch specification
LongRows == 11

\* most row elements of a fitment table of the extraction specification
MaxFitRows == 3

\* most field-list items of a page of the extraction specification
MaxItems == 3

(***************************************************************************)
(* Program constants.                                                      *)
(***************************************************************************)
URLCol == "product-image-link href"

CheckpointEvery == 10

allowed_keys ==
    <<"Product Title", "Product Subtitle", "Manufacturer Info", "SKU",
      "Other Names", "Description", "Notes", "Replaces", "Description 2",
      "MSRP", "Discount", "Sale Price", "Condition", "Install Time",
      "Applications">>

FitmentKeys == <<"Year", "Make", "Model", "Body & Trim", "Engine & Transmission">>

ManufacturerText == "Genuine Mopar Parts"

\* soup.find(...) found nothing
Absent == "<absent>"

\* an empty spreadsheet cell as read by pandas
NaN == "NaN"

(***************************************************************************)
(* Sequence helpers.                                                       *)
(***************************************************************************)
Range(s) == {s[i] : i \in DOMAIN s}

IsPrefix(s, t) == Len(s) <= Len(t) /\ SubSeq(t, 1, Len(s)) = s

RECURSIVE Flatten(_)
Flatten(ss) == IF ss = <<>> THEN <<>> ELSE Head(ss) \o Flatten(Tail(ss))

(***************************************************************************)
(* str methods used by the extraction code, on TLA+ strings.               *)
(***************************************************************************)
\* A string of the module holds characters up to U+00FF.  Among them the
\* decimal digits (category Nd, what \d matches in a str pattern) are the
\* ten ASCII digits.
Digits == {"0", "1", "2", "3", "4", "5", "6", "7", "8", "9"}

\* the characters str.strip() removes, up to U+00FF: space, tab, line feed,
\* carriage return, form feed, and (written as the characters themselves)
\* U+000B, U+001C, U+001D, U+001E, U+001F, U+0085, U+00A0
Whitespace ==
    {" ", "\t", "\n", "\r", "\f",
     "", "", "", "", "", "", " "}

\* the texts of the environment that hold a character above U+007F
WideTexts ==
    {"https://parts.example/café", "Citroën", "Référence", "Wrangler"}

\* the string s itself.  TLC hands back a string of a state it has stored
\* on disk equal to the string as written in the module, but with every
\* character above U+007F replaced: the characters of a text are always
\* read from the string as written.
Literal(s) == IF s \in WideTexts THEN CHOOSE t \in WideTexts : t = s ELSE s

CharAt(s, i) == SubSeq(s, i, i)

\* str.lstrip()
RECURSIVE LStrip(_)
LStrip(s) ==
    IF Len(s) > 0 /\ CharAt(s, 1) \in Whitespace
    THEN LStrip(SubSeq(s, 2, Len(s))) ELSE s

\* str.rstrip()
RECURSIVE RStrip(_)
RStrip(s) ==
    IF Len(s) > 0 /\ CharAt(s, Len(s)) \in Whitespace
    THEN RStrip(SubSeq(s, 1, Len(s) - 1)) ELSE s

\* str.strip()
Strip(s) == RStrip(LStrip(Literal(s)))

\* str.replace(':', '')
RECURSIVE RemoveColons(_)
RemoveColons(s) ==
    IF \A i \in 1..Len(s) : CharAt(s, i) # ":" THEN s
    ELSE (IF CharAt(s, 1) = ":" THEN "" ELSE CharAt(s, 1))
         \o RemoveColons(SubSeq(s, 2, Len(s)))

\* label_elem.text.strip().replace(':', '').strip()
CleanLabel(text) == Strip(RemoveColons(Strip(text)))

\* re.match(r'^\d+$', label): one or more digits up to the end of the
\* string, or up to a line feed that ends the string
IsDigits(s) ==
    LET body == IF Len(s) > 0 /\ CharAt(s, Len(s)) = "\n"
                THEN SubSeq(s, 1, Len(s) - 1) ELSE s
    IN  Len(body) > 0 /\ \A i \in 1..Len(body) : CharAt(body, i) \in Digits

\* label.startswith('$')
StartsWithDollar(s) == Len(s) > 0 /\ CharAt(s, 1) = "$"

\* not label or label.startswith('$') or re.match(r'^\d+$', label)
RejectLabel(label) == label = "" \/ StartsWithDollar(label) \/ IsDigits(label)

\* sep.join(parts)
RECURSIVE Join(_, _)
Join(parts, sep) ==
    IF parts = <<>> THEN ""
    ELSE IF Len(parts) = 1 THEN parts[1]
    ELSE parts[1] \o sep \o Join(Tail(parts), sep)

\* the stripped, non-empty text nodes of an element
RECURSIVE StrippedNodes(_)
StrippedNodes(nodes) ==
    IF nodes = <<>> THEN <<>>
    ELSE (IF Strip(Head(nodes)) = "" THEN <<>> ELSE <<Strip(Head(nodes))>>)
         \o StrippedNodes(Tail(nodes))

\* element.get_text(separator=sep, strip=True)
GetText(nodes, sep) == Join(StrippedNodes(nodes), sep)

(***************************************************************************)
(* dict helpers.                                                           *)
(***************************************************************************)
EmptyDict == [k \in {} |-> ""]

\* d[k] = v
DictSet(d, k, v) == (k :> v) @@ d

\* d.update(e)
DictUpdate(d, e) == e @@ d

\* elem.text.strip() if elem else ''
TextOrEmpty(elem) == IF elem = Absent THEN "" ELSE Strip(elem)

(***************************************************************************)
(* print(): the text is encoded for the standard output of the run, and a  *)
(* character the encoding lacks raises UnicodeEncodeError.                 *)
(***************************************************************************)
Chars(s) == {CharAt(Literal(s), i) : i \in 1..Len(s)}

\* the characters U+0080 .. U+009F, written as the characters themselves
C1Controls == Chars("")

\* the characters U+00A0 .. U+00FF, written as the characters themselves
Latin1Upper == Chars(" ¡¢£¤¥¦§¨©ª«¬­®¯°±²³´µ¶·¸¹º»¼½¾¿ÀÁÂÃÄÅÆÇÈÉÊËÌÍÎÏÐÑÒÓÔÕÖ×ØÙÚÛÜÝÞßàáâãäåæçèéêëìíîïðñòóôõö÷øùúûüýþÿ")

\* the encodings of the standard output
Encodings == {"utf-8", "cp1252", "ascii"}

\* the characters of a string of the module that encoding enc lacks
NotEncodable(enc) ==
    CASE enc = "utf-8" -> {}
      [] enc = "cp1252" -> C1Controls
      [] OTHER -> C1Controls \cup Latin1Upper

\* print(text) does not raise
Printable(enc, text) == Chars(text) \cap NotEncodable(enc) = {}

\* print of a message with the check mark U+2713 or the cross U+2717
\* (lines 332, 334, 343, 358, 363) does not raise
MarkPrintable(enc) == enc = "utf-8"

\* the characters above U+007F that repr() of a str keeps: the printable
\* ones, all of Latin1Upper but U+00A0 and U+00AD
ReprKept == Latin1Upper \ Chars(" ­")

\* print of the repr of a list of str (line 305) does not raise
ReprPrintable(enc, names) ==
    \A i \in 1..Len(names) :
       (Chars(names[i]) \cap ReprKept) \cap NotEncodable(enc) = {}

\* the texts str(e) of the exceptions of the environment (a message of
\* pandas, of the operating system or of the browser driver): in ASCII,
\* with a letter ascii lacks, and with a character cp1252 lacks as well
ErrorMessages ==
    {"Message: timeout", "Accès refusé: 'données.xlsx'",
     "invalid name: 'C3'"}

\* whether the print of a message that holds str(e) (lines 279, 297)
\* returns: TRUE when it does, FALSE when it raises UnicodeEncodeError
MessageOutcomes(enc) == {Printable(enc, m) : m \in ErrorMessages}

(***************************************************************************)
(* extract_fitment_data(soup)                                              *)
(***************************************************************************)
\* the tr.fitment-row elements the loop iterates over
FitmentRowElems(table) ==
    IF table.tbody
    THEN SelectSeq(table.rows, LAMBDA r : r.in_body)
    ELSE table.rows

ValidFitmentRow(r) == r.year # Absent /\ r.make # Absent /\ r.model # Absent

FitmentOf(r) ==
    [k \in Range(FitmentKeys) |->
        CASE k = "Year" -> TextOrEmpty(r.year)
          [] k = "Make" -> TextOrEmpty(r.make)
          [] k = "Model" -> TextOrEmpty(r.model)
          [] k = "Body & Trim" -> TextOrEmpty(r.trim)
          [] OTHER -> TextOrEmpty(r.engine)]

\* the text printed at line 58 for a fitment
FitmentLine(fitment) ==
    fitment["Year"] \o " " \o fitment["Make"] \o " " \o fitment["Model"]

\* the loop over the rows: a valid row is appended and then printed; when
\* the print raises, `except Exception` returns the fitments collected so
\* far and the rows that follow are not looked at
RECURSIVE CollectFitments(_, _)
CollectFitments(enc, rows) ==
    IF rows = <<>> THEN <<>>
    ELSE IF ~ValidFitmentRow(Head(rows)) THEN CollectFitments(enc, Tail(rows))
    ELSE IF Printable(enc, FitmentLine(FitmentOf(Head(rows))))
         THEN <<FitmentOf(Head(rows))>> \o CollectFitments(enc, Tail(rows))
         ELSE <<FitmentOf(Head(rows))>>

\* extract_fitment_data(soup), with standard output of encoding enc
extract_fitment_data(enc, soup) ==
    IF ~soup.fitment_table.present THEN <<>>
    ELSE CollectFitments(enc, FitmentRowElems(soup.fitment_table))

(***************************************************************************)
(* The field extraction of extract_product_data(url).                      *)
(***************************************************************************)
\* a scan that stores every pair under its bare label
ScanItem_overwrite(item, st) ==
    IF item.label = Absent \/ item.value = Absent THEN st
    ELSE IF RejectLabel(CleanLabel(item.label)) THEN st
    ELSE [data |-> DictSet(st.data, CleanLabel(item.label), Strip(item.value)),
          tracker |-> st.tracker]

\* one <li> of a field list: updates data and field_tracker
ScanItem(item, st) ==
    IF item.label = Absent \/ item.value = Absent THEN st
    ELSE LET label == CleanLabel(item.label)
             value == Strip(item.value)
         IN IF RejectLabel(label) THEN st
            ELSE IF label \in DOMAIN st.tracker
            THEN LET n == st.tracker[label] + 1
                 IN [data |-> DictSet(st.data, label \o " " \o ToString(n), value),
                     tracker |-> [st.tracker EXCEPT ![label] = n]]
            ELSE [data |-> DictSet(st.data, label, value),
                  tracker |-> [x \in DOMAIN st.tracker \cup {label} |->
                                  IF x = label THEN 1 ELSE st.tracker[x]]]

RECURSIVE ScanItems(_, _)
ScanItems(items, st) ==
    IF items = <<>> THEN st ELSE ScanItems(Tail(items), ScanItem(Head(items), st))

SingletonFields(soup) ==
    [k \in {"Product Title", "Product Subtitle", "Manufacturer Info"} |->
        CASE k = "Product Title" -> TextOrEmpty(soup.title)
          [] k = "Product Subtitle" -> TextOrEmpty(soup.subtitle)
          [] OTHER -> TextOrEmpty(soup.manufacturer)]

FieldListData(soup) ==
    ScanItems(Flatten(soup.field_lists),
              [data |-> SingletonFields(soup), tracker |-> [k \in {} |-> 0]]).data

WithDescription(soup, d) ==
    IF soup.description.present
    THEN DictSet(d, "Description", GetText(soup.description.nodes, " ")) ELSE d

RECURSIVE NoteTexts(_)
NoteTexts(items) ==
    IF items = <<>> THEN <<>>
    ELSE <<GetText(Head(items), "")>> \o NoteTexts(Tail(items))

WithNotes(soup, d) ==
    IF soup.notes # <<>>
    THEN DictSet(d, "Notes", Join(NoteTexts(soup.notes), " | ")) ELSE d

WithPrices(soup, d) ==
    LET d1 == IF soup.msrp # Absent THEN DictSet(d, "MSRP", Strip(soup.msrp)) ELSE d
    IN IF soup.sale_price # Absent
       THEN DictSet(d1, "Sale Price", Strip(soup.sale_price)) ELSE d1

\* the dict `data` when the allow-list filter is reached
ProductData(soup) ==
    WithPrices(soup, WithNotes(soup, WithDescription(soup, FieldListData(soup))))

\* a filter that lets every field through
FilterAllowed_all(data) == data

\* {k: data[k] for k in allowed_keys if k in data}
FilterAllowed(data) == [k \in Range(allowed_keys) \cap DOMAIN data |-> data[k]]

EmptyFitment == [k \in Range(FitmentKeys) |-> ""]

\* a row expansion that repeats the first fitment in every row
ExpandRows_first(filtered_data, fitments) ==
    IF fitments # <<>>
    THEN [i \in 1..Len(fitments) |-> DictUpdate(filtered_data, fitments[1])]
    ELSE <<DictUpdate(filtered_data, EmptyFitment)>>

\* a row expansion without the placeholder row
ExpandRows_skip(filtered_data, fitments) ==
    [i \in 1..Len(fitments) |-> DictUpdate(filtered_data, fitments[i])]

\* one row per fitment, or one placeholder row
ExpandRows(filtered_data, fitments) ==
    IF fitments # <<>>
    THEN [i \in 1..Len(fitments) |-> DictUpdate(filtered_data, fitments[i])]
    ELSE <<DictUpdate(filtered_data, EmptyFitment)>>

\* the list returned by `return result_rows`
ResultRows(enc, soup) ==
    ExpandRows(FilterAllowed(ProductData(soup)),
               extract_fitment_data(enc, soup))

(***************************************************************************)
(* The environment: the site and the input spreadsheets.                   *)
(***************************************************************************)
UrlA == "https://parts.example/a"

UrlB == "https://parts.example/b"

UrlC == "https://parts.example/c"

\* a URL with a character outside ASCII
UrlD == "https://parts.example/café"

NoDescription == [present |-> FALSE, nodes |-> <<>>]

FitRow(in_body, year, make, model, trim, engine) ==
    [in_body |-> in_body, year |-> year, make |-> make, model |-> model,
     trim |-> trim, engine |-> engine]

NoFitmentTable == [present |-> FALSE, tbody |-> FALSE, rows |-> <<>>]

\* a product page with a fitment table: three row elements, two of them valid
PageA ==
    [title |-> "\n\t Brake Pad Set \r\n", subtitle |-> Absent,
     manufacturer |-> ManufacturerText,
     field_lists |->
        << << [label |-> "SKU:", value |-> " 12345 "],
              [label |-> "Condition", value |-> "New"],
              [label |-> "42", value |-> "x"] >>,
           << [label |-> "SKU", value |-> "999"],
              [label |-> "$5", value |-> "y"],
              [label |-> Absent, value |-> "z"],
              [label |-> "Color:", value |-> "Red"] >> >>,
     description |-> [present |-> TRUE, nodes |-> <<"\n Fits\t", "well">>],
     notes |-> <<>>,
     msrp |-> "$10", sale_price |-> Absent,
     fitment_table |->
        [present |-> TRUE, tbody |-> TRUE,
         rows |-> << FitRow(TRUE, "2020", "Citroën", " C3", "Sport", "1.2L"),
                     FitRow(TRUE, "2021", Absent, "Gladiator", "Sport", Absent),
                     FitRow(TRUE, "2021", "Jeep", "Gladiator", Absent, Absent) >>]]

\* a product page without a fitment table
PageB ==
    [title |-> "Oil Filter", subtitle |-> "Engine", manufacturer |-> Absent,
     field_lists |->
        << << [label |-> "Replaces", value |-> "OF-1"],
              [label |-> "Year", value |-> "2001"] >> >>,
     description |-> NoDescription,
     notes |-> << <<"Note 1 ">>, <<"Note 2">> >>,
     msrp |-> Absent, sale_price |-> "\t$7\n",
     fitment_table |-> NoFitmentTable]

\* a product page whose fitment table sits directly under the table element
\* and has no valid row
PageC ==
    [title |-> Absent, subtitle |-> Absent, manufacturer |-> Absent,
     field_lists |-> << << [label |-> " Condition :", value |-> Absent],
                           [label |-> "Condition", value |-> "Used"] >> >>,
     description |-> NoDescription,
     notes |-> <<>>,
     msrp |-> Absent, sale_price |-> Absent,
     fitment_table |->
        [present |-> TRUE, tbody |-> FALSE,
         rows |-> << FitRow(FALSE, "2019", "Ram", Absent, "Base", "5.7L") >>]]

Site ==
    [u \in {UrlA, UrlB, UrlC, UrlD} |->
        CASE u = UrlA -> PageA [] u = UrlB -> PageB [] u = UrlC -> PageC
          [] OTHER -> PageB]

\* the columns of a well-formed input table; two of them collide with
\* extracted field names
StdColumns == <<URLCol, "Part", "Year", "SKU">>

\* the i-th row of an input table
MkRow(cols, url, i) ==
    [c \in Range(cols) |->
        CASE c = URLCol -> url
          [] c = "Part" -> "P" \o ToString(i)
          [] c = "Year" -> "1999"
          [] OTHER -> "IN-SKU"]

MkTable(cols, urls) ==
    [readable |-> TRUE, columns |-> cols,
     rows |-> [i \in 1..Len(urls) |-> MkRow(cols, urls[i], i)]]

UrlCells == {NaN, "", UrlA, UrlB, UrlC}

UrlSeqs(n) == UNION {[1..k -> UrlCells] : k \in 0..n}

\* the spreadsheets pd.read_excel returns
ReadableTables ==
    {MkTable(StdColumns, us) : us \in UrlSeqs(MaxRows)}
    \cup {MkTable(<<"Part", "Year">>, <<UrlA>>)}
    \cup {MkTable(StdColumns, <<UrlD>>)}
    \cup {MkTable(<<URLCol, "Référence">>, <<UrlB>>)}

\* the same file when pd.read_excel raises on it
Unreadable(table) == [table EXCEPT !.readable = FALSE]

\* the input spreadsheets of the general specification
InputTables == ReadableTables \cup {Unreadable(t) : t \in ReadableTables}

\* the input spreadsheets of the long-batch specification: LongRows rows
\* alternating between the two pages, optionally with one empty URL cell
BatchUrls(skip) ==
    [i \in 1..LongRows |->
        IF i = skip THEN NaN ELSE IF i % 2 = 1 THEN UrlA ELSE UrlB]

BatchTables == {MkTable(StdColumns, BatchUrls(skip)) : skip \in {0, 2}}

\* the row elements a fitment table of the extraction specification is made
\* of: complete, without trim and engine cells, and without make, year or
\* model cell
FitRowKinds(in_body) ==
    {FitRow(in_body, "\n 2020\t", "Jeep", "Wrangler", "Sport", "3.6L V6"),
     FitRow(in_body, "2021", "Citroën", "C3", Absent, Absent),
     FitRow(in_body, "2021", Absent, "Gladiator", "Sport", Absent),
     FitRow(in_body, Absent, "Ram", "1500", Absent, "5.7L"),
     FitRow(in_body, "2019", "Ram", Absent, "Base", "5.7L")}

FitRowSeqs(in_body) ==
    UNION {[1..k -> FitRowKinds(in_body)] : k \in 0..MaxFitRows}

\* a complete row element that is in the table but not in its body
StrayRow == FitRow(FALSE, "1999", "Stray", "Row", Absent, Absent)

\* no table, rows directly under the table, rows in the table body, and
\* rows in the table body preceded by a row outside of it
FitmentTables ==
    {NoFitmentTable}
    \cup {[present |-> TRUE, tbody |-> FALSE, rows |-> rs] : rs \in FitRowSeqs(FALSE)}
    \cup {[present |-> TRUE, tbody |-> TRUE, rows |-> rs] : rs \in FitRowSeqs(TRUE)}
    \cup {[present |-> TRUE, tbody |-> TRUE, rows |-> <<StrayRow>> \o rs] :
              rs \in FitRowSeqs(TRUE)}

FitmentPages == {[PageA EXCEPT !.fitment_table = t] : t \in FitmentTables}

\* the label texts of the field-list items of the extraction specification
LabelTexts ==
    {"SKU:", "SKU 2", "\n\tDescription \r\n", "Product Title", "42", "$5", ":",
     Absent}

\* a label text, and whether the item has a value element
ItemKinds == (LabelTexts \X {TRUE}) \cup {<<"SKU:", FALSE>>}

ItemSeqs == UNION {[1..k -> ItemKinds] : k \in 0..MaxItems}

\* the i-th item of a page: its value text tells the items apart
MkItem(kind, i) ==
    [label |-> kind[1],
     value |-> IF kind[2] THEN "\tv" \o ToString(i) \o " \n" ELSE Absent]

\* the items in two field lists: the first item alone, then the others
SplitLists(items) ==
    IF Len(items) <= 1 THEN <<items>>
    ELSE <<SubSeq(items, 1, 1), SubSeq(items, 2, Len(items))>>

FieldPage(kinds, with_description) ==
    [title |-> " Brake Pad Set ", subtitle |-> Absent, manufacturer |-> Absent,
     field_lists |-> SplitLists([i \in 1..Len(kinds) |-> MkItem(kinds[i], i)]),
     description |-> IF with_description
                     THEN [present |-> TRUE, nodes |-> <<" Block ", "text">>]
                     ELSE NoDescription,
     notes |-> <<>>,
     msrp |-> Absent, sale_price |-> Absent,
     fitment_table |-> NoFitmentTable]

FieldPages == {FieldPage(ks, d) : ks \in ItemSeqs, d \in BOOLEAN}

\* the documents of the extraction specification
ExtractPages == FitmentPages \cup FieldPages

\* the kinds of failure the environment of a run can produce
AllFaults ==
    {"mkdtemp", "chrome", "get", "title", "tab", "section", "cycles",
     "expander", "rows", "parse", "quit", "rmtree", "save"}

\* the optional steps of a page visit
OptionalSteps == {"tab", "section", "cycles", "expander", "rows"}

(***************************************************************************)
(* Python optional values.                                                 *)
(***************************************************************************)
NoneRows == [is_none |-> TRUE, rows |-> <<>>]

SomeRows(rows) == [is_none |-> FALSE, rows |-> rows]

\* `if product_rows:`
Truthy(v) == ~v.is_none /\ v.rows # <<>>

NoFile == [exists |-> FALSE, rows |-> <<>>]

FileOf(rows) == [exists |-> TRUE, rows |-> rows]

\* the readable rows of the output after a to_excel(rows) that raised: the
\* file as it was when the failure came before the file was opened, else a
\* file with no readable row or with the first rows only
AfterFailedWrite(file, rows) ==
    {file} \cup {FileOf(SubSeq(rows, 1, k)) : k \in 0..(Len(rows) - 1)}
                \cup {FileOf(<<>>)}

\* driver / profile_path is None
NoRef == 0

(***************************************************************************)
(* State.                                                                  *)
(***************************************************************************)
VARIABLES
    df,               \* the input spreadsheet
    web,              \* the document each URL serves
    faults,           \* the failures the environment of this run can produce
    stdout,           \* the encoding of the standard output of the run
    pc,               \* position in process_excel_file / extract_product_data
    idx,              \* 1-based index of the input row being processed
    all_rows,         \* the accumulator
    success_count,
    processed_count,
    product_rows,     \* value of the last extract_product_data call
    result,           \* pending return value of extract_product_data
    driver,           \* local: the browser handle, NoRef when None
    profile_path,     \* local: the profile directory, NoRef when None
    browsers,         \* running browser processes
    profiles,         \* existing profile directories
    storage,          \* the output spreadsheet
    failed_steps,     \* steps of the current page visit that raised
    visited,          \* input rows for which extract_product_data was called
    delays,           \* input rows after whose visit time.sleep(delay) ran
    flushed,          \* the last loop iteration called to_excel
    save_status,      \* outcome of the most recent to_excel call
    pages,            \* the successful extractions: input row, len(all_rows)
    report            \* the last summary message printed

vars ==
    <<df, web, faults, stdout, pc, idx, all_rows, success_count, processed_count,
      product_rows, result, driver, profile_path, browsers, profiles, storage,
      failed_steps, visited, delays, flushed, save_status, pages, report>>

envVars == <<df, web, faults, stdout>>

batchVars == <<all_rows, success_count, processed_count, storage, flushed,
               save_status, pages, delays, report>>

sessionVars == <<driver, profile_path, browsers, profiles>>

total_rows == Len(df.rows)

row == df.rows[idx]

url == row[URLCol]

\* a URL test that forgets the empty string
NoUrl_nan(u) == u = NaN

\* pd.isna(url) or url == ''
NoUrl(u) == u = NaN \/ u = ""

\* the outcomes of a step that fails under fault kind k
Outcomes(k) == IF k \in faults THEN {TRUE, FALSE} ELSE {TRUE}

InitCommon ==
    /\ pc = "read"
    /\ idx = 1
    /\ all_rows = <<>>
    /\ success_count = 0
    /\ processed_count = 0
    /\ product_rows = NoneRows
    /\ result = NoneRows
    /\ driver = NoRef
    /\ profile_path = NoRef
    /\ browsers = {}
    /\ profiles = {}
    /\ storage = NoFile
    /\ failed_steps = {}
    /\ visited = <<>>
    /\ delays = {}
    /\ flushed = FALSE
    /\ save_status = "none"
    /\ pages = <<>>
    /\ report = ""

Init ==
    /\ df \in InputTables
    /\ web = Site
    /\ faults = AllFaults
    /\ stdout \in Encodings
    /\ InitCommon

\* long batches in an environment where only the title wait and the
\* spreadsheet writes can fail
InitBatch ==
    /\ df \in BatchTables
    /\ web = Site
    /\ faults = {"title", "save"}
    /\ stdout \in Encodings
    /\ InitCommon

\* one page visit, after a skipped row, of any document of ExtractPages in
\* an environment without failures; the encoding of the standard output
\* varies for the documents with fitment rows, whose text is printed
InitExtract ==
    /\ df = MkTable(StdColumns, <<NaN, UrlA>>)
    /\ web \in {[u \in {UrlA} |-> p] : p \in ExtractPages}
    /\ faults = {}
    /\ stdout \in (IF web[UrlA] \in FitmentPages THEN Encodings
                   ELSE {"utf-8"})
    /\ InitCommon

(***************************************************************************)
(* process_excel_file: reading the input.                                  *)
(***************************************************************************)
\* a column check that never reports the column missing
ColumnMissing_never(columns) == FALSE

\* 'product-image-link href' not in df.columns
ColumnMissing(columns) == URLCol \notin Range(columns)

\* pd.read_excel and the check of the URL column
ReadInput ==
    /\ pc = "read"
    /\ IF ~df.readable
       THEN \* pd.read_excel raised: the handler prints the message of the
            \* exception (line 297) and returns, or that print raises in
            \* turn and the exception leaves process_excel_file
            \E shown \in MessageOutcomes(stdout) :
               IF shown
               THEN pc' = "halted" /\ report' = "read_error"
               ELSE pc' = "crashed" /\ report' = report
       ELSE IF ColumnMissing(df.columns)
       THEN pc' = "halted" /\ report' = "no_column"
       ELSE IF ~ReprPrintable(stdout, df.columns)
       THEN \* the print of the column names (line 305) raised
            pc' = "crashed" /\ report' = report
       ELSE pc' = "loop" /\ report' = report
    /\ UNCHANGED <<envVars, idx, all_rows, success_count, processed_count,
                   product_rows, result, sessionVars, storage, failed_steps,
                   visited, delays, flushed, save_status, pages>>

\* a row without URL: `continue`
SkipRow ==
    /\ pc = "loop"
    /\ idx <= total_rows
    /\ NoUrl(url)
    /\ idx' = idx + 1
    /\ UNCHANGED <<envVars, pc, product_rows, result, sessionVars, failed_steps,
                   visited, batchVars>>

(***************************************************************************)
(* extract_product_data(url): one action per step of the session.          *)
(***************************************************************************)
\* what a page visit notes when step raised and `except Exception` ran:
\* the step, and "except" when the print of line 279 raised in the handler
Handled(step, shown) == IF shown THEN {step} ELSE {step, "except"}

\* an exception reaches `except Exception`: the handler prints the URL and
\* the message of the exception, then `return None`, then `finally`; when
\* the print raises there is no return value and the UnicodeEncodeError
\* goes on after `finally`
PageFails(step) ==
    /\ \E shown \in MessageOutcomes(stdout) :
          failed_steps' = failed_steps \cup Handled(step, shown)
    /\ result' = NoneRows
    /\ pc' = "teardown"

\* the step succeeded: go on with the step at position next
StepOk(next) ==
    /\ pc' = next
    /\ UNCHANGED <<failed_steps, result>>

\* an optional step raised inside its own try block: note it and go on
StepSkipped(step, next) ==
    /\ failed_steps' = failed_steps \cup {step}
    /\ pc' = next
    /\ UNCHANGED result

\* the call of extract_product_data for a row with a URL, up to the return
\* of create_driver_with_profile
CreateDriver ==
    /\ pc = "loop"
    /\ idx <= total_rows
    /\ ~NoUrl(url)
    /\ visited' = IF Printable(stdout, url) THEN Append(visited, idx)
                   ELSE visited
    /\ \E o \in (IF Printable(stdout, url)
                 THEN {"ok"} \cup ({"mkdtemp", "chrome"} \cap faults)
                 ELSE {"print"}) :
          CASE o = "print" ->
                 \* the print of the URL (line 320) raised before the call
                 /\ pc' = "crashed"
                 /\ UNCHANGED <<sessionVars, failed_steps, result>>
            [] o = "ok" ->
                 \* the profile directory and the browser of this visit
                 /\ profiles' = profiles \cup {idx}
                 /\ browsers' = browsers \cup {idx}
                 /\ driver' = idx
                 /\ profile_path' = idx
                 /\ failed_steps' = {}
                 /\ pc' = "get"
                 /\ UNCHANGED result
            [] o = "mkdtemp" ->
                 \* tempfile.mkdtemp raised: nothing was created
                 /\ driver' = NoRef
                 /\ profile_path' = NoRef
                 /\ \E shown \in MessageOutcomes(stdout) :
                       failed_steps' = Handled("create", shown)
                 /\ result' = NoneRows
                 /\ pc' = "teardown"
                 /\ UNCHANGED <<profiles, browsers>>
            [] OTHER ->
                 \* the driver could not be started after mkdtemp: the
                 \* tuple is never assigned, both locals stay None
                 /\ profiles' = profiles \cup {idx}
                 /\ driver' = NoRef
                 /\ profile_path' = NoRef
                 /\ \E shown \in MessageOutcomes(stdout) :
                       failed_steps' = Handled("create", shown)
                 /\ result' = NoneRows
                 /\ pc' = "teardown"
                 /\ UNCHANGED browsers
    /\ UNCHANGED <<envVars, idx, product_rows, batchVars>>

\* driver.get(url)
Navigate ==
    /\ pc = "get"
    /\ \E ok \in Outcomes("get") :
          IF ok THEN StepOk("title") ELSE PageFails("get")
    /\ UNCHANGED <<envVars, idx, product_rows, sessionVars, visited, batchVars>>

\* the mandatory wait for the product title
WaitTitle ==
    /\ pc = "title"
    /\ \E ok \in Outcomes("title") :
          IF ok THEN StepOk("tab") ELSE PageFails("title")
    /\ UNCHANGED <<envVars, idx, product_rows, sessionVars, visited, batchVars>>

\* click the vehicle fitment tab, inside try/except
ClickTab ==
    /\ pc = "tab"
    /\ \E ok \in Outcomes("tab") :
          IF ok THEN StepOk("section") ELSE StepSkipped("tab", "section")
    /\ UNCHANGED <<envVars, idx, product_rows, sessionVars, visited, batchVars>>

\* scroll to the fitment section, inside try/except
ScrollSection ==
    /\ pc = "section"
    /\ \E ok \in Outcomes("section") :
          IF ok THEN StepOk("cycles") ELSE StepSkipped("section", "cycles")
    /\ UNCHANGED <<envVars, idx, product_rows, sessionVars, visited, batchVars>>

\* the five scrollBy/sleep cycles, not inside a try block of their own
ScrollCycles ==
    /\ pc = "cycles"
    /\ \E ok \in Outcomes("cycles") :
          IF ok THEN StepOk("expander") ELSE PageFails("cycles")
    /\ UNCHANGED <<envVars, idx, product_rows, sessionVars, visited, batchVars>>

\* click the fitment expander, inside try/except
ClickExpander ==
    /\ pc = "expander"
    /\ \E ok \in Outcomes("expander") :
          IF ok THEN StepOk("rows") ELSE StepSkipped("expander", "rows")
    /\ UNCHANGED <<envVars, idx, product_rows, sessionVars, visited, batchVars>>

\* len(d.find_elements(By.CSS_SELECTOR, "tr.fitment-row")) > 0
RowElementsExist(soup) ==
    soup.fitment_table.present /\ soup.fitment_table.rows # <<>>

\* wait for at least one fitment row, inside try/except; the wait times
\* out on a page that has no fitment row element
WaitRows ==
    /\ pc = "rows"
    /\ \E ok \in (IF RowElementsExist(web[url]) THEN Outcomes("rows") ELSE {FALSE}) :
          IF ok THEN StepOk("parse") ELSE StepSkipped("rows", "parse")
    /\ UNCHANGED <<envVars, idx, product_rows, sessionVars, visited, batchVars>>

\* from driver.page_source to `return result_rows`
Parse ==
    /\ pc = "parse"
    /\ \E ok \in Outcomes("parse") :
          IF ok
          THEN /\ result' = SomeRows(ResultRows(stdout, web[url]))
               /\ pc' = "teardown"
               /\ UNCHANGED failed_steps
          ELSE PageFails("parse")
    /\ UNCHANGED <<envVars, idx, product_rows, sessionVars, visited, batchVars>>

\* cleanup_profile(profile_path): shutil.rmtree(path, ignore_errors=True)
\* deletes the directory, or leaves it without raising when the operating
\* system refuses the deletion
cleanup_profile(dirs, path, deleted) == IF deleted THEN dirs \ {path} ELSE dirs

\* the exception raised in the `except Exception` handler is pending
Unwinding == "except" \in failed_steps

\* the finally block: driver.quit(), then cleanup_profile; after it the
\* call returns to line 322, or the pending exception leaves
\* extract_product_data and process_excel_file
Teardown ==
    /\ pc = "teardown"
    /\ IF driver # NoRef
       THEN \E ok \in Outcomes("quit") :
               IF ok
               THEN /\ browsers' = browsers \ {driver}
                    /\ \E deleted \in Outcomes("rmtree") :
                          profiles' =
                             IF profile_path # NoRef
                             THEN cleanup_profile(profiles, profile_path,
                                                  deleted)
                             ELSE profiles
                    /\ product_rows' = IF Unwinding THEN product_rows
                                        ELSE result
                    /\ pc' = IF Unwinding THEN "crashed" ELSE "collect"
                    /\ UNCHANGED failed_steps
               ELSE \* driver.quit() raised: the exception leaves the
                    \* finally block, extract_product_data and
                    \* process_excel_file; the browser may or may not be gone
                    /\ browsers' \in {browsers, browsers \ {driver}}
                    /\ failed_steps' = failed_steps \cup {"quit"}
                    /\ pc' = "crashed"
                    /\ UNCHANGED <<profiles, product_rows>>
       ELSE /\ \E deleted \in Outcomes("rmtree") :
                  profiles' =
                     IF profile_path # NoRef
                     THEN cleanup_profile(profiles, profile_path, deleted)
                     ELSE profiles
            /\ product_rows' = IF Unwinding THEN product_rows ELSE result
            /\ pc' = IF Unwinding THEN "crashed" ELSE "collect"
            /\ UNCHANGED <<browsers, failed_steps>>
    /\ driver' = NoRef
    /\ profile_path' = NoRef
    /\ UNCHANGED <<envVars, idx, result, visited, batchVars>>

(***************************************************************************)
(* process_excel_file: the rest of a loop iteration and the final save.    *)
(***************************************************************************)
\* a merge in which the input columns overwrite the extracted fields
MergeRow_overwrite(product_row, in_row, original_columns) ==
    [k \in DOMAIN product_row \cup
           {c \in Range(original_columns) : c \in DOMAIN in_row} |->
        IF k \in Range(original_columns) /\ k \in DOMAIN in_row
        THEN in_row[k] ELSE product_row[k]]

\* the passthrough merge of one product_row
MergeRow(product_row, in_row, original_columns) ==
    [k \in DOMAIN product_row \cup
           {c \in Range(original_columns) : c \in DOMAIN in_row} |->
        IF k \in DOMAIN product_row THEN product_row[k] ELSE in_row[k]]

MergeRows(rows, in_row, original_columns) ==
    [i \in 1..Len(rows) |-> MergeRow(rows[i], in_row, original_columns)]

\* all_rows.extend(product_rows)
Extend(acc, rows) == acc \o rows

\* `if success_count % 10 == 0`
CheckpointDue(count) == count % CheckpointEvery = 0

\* `if idx < total_rows - 1` for the 0-based index i
DelayDue(i, total) == i < total - 1

\* from `if product_rows:` to the end of the loop body
Collect ==
    /\ pc = "collect"
    /\ LET ok == Truthy(product_rows)
           merged == IF ok THEN MergeRows(product_rows.rows, row, df.columns)
                     ELSE <<>>
           rows1 == Extend(all_rows, merged)
           count1 == IF ok THEN success_count + 1 ELSE success_count
       IN /\ all_rows' = rows1
          /\ success_count' = count1
          /\ product_rows' = IF ok THEN SomeRows(merged) ELSE product_rows
          /\ pages' = IF ok
                       THEN Append(pages, [row |-> idx, last |-> Len(rows1)])
                       ELSE pages
          /\ IF ~MarkPrintable(stdout)
             THEN \* the print of line 332 or 334 raised: the exception
                  \* leaves the loop and process_excel_file
                  /\ pc' = "crashed"
                  /\ UNCHANGED <<processed_count, flushed, storage,
                                 save_status, delays, idx>>
             ELSE /\ processed_count' = processed_count + 1
                  /\ IF CheckpointDue(count1)
                     THEN /\ flushed' = TRUE
                          /\ \E saved \in Outcomes("save") :
                                IF saved
                                THEN /\ storage' = FileOf(rows1)
                                     /\ save_status' = "ok"
                                ELSE /\ storage' \in AfterFailedWrite(storage,
                                                                     rows1)
                                     /\ save_status' = "error"
                     ELSE /\ flushed' = FALSE
                          /\ UNCHANGED <<storage, save_status>>
                  /\ delays' = IF DelayDue(idx - 1, total_rows)
                               THEN delays \cup {idx} ELSE delays
                  /\ idx' = idx + 1
                  /\ pc' = "loop"
    /\ UNCHANGED <<envVars, result, sessionVars, failed_steps, visited, report>>

\* the final save after the loop
FinalSave ==
    /\ pc = "loop"
    /\ idx > total_rows
    /\ IF all_rows # <<>>
       THEN /\ \E saved \in Outcomes("save") :
                  IF saved
                  THEN /\ storage' = FileOf(all_rows)
                       /\ save_status' = "ok"
                       \* a print of line 358 that raises is caught at 360
                       /\ report' = IF MarkPrintable(stdout) THEN "saved"
                                    ELSE "save_error"
                  ELSE /\ storage' \in AfterFailedWrite(storage, all_rows)
                       /\ save_status' = "error"
                       /\ report' = "save_error"
            /\ pc' = "done"
       ELSE IF MarkPrintable(stdout)
       THEN /\ report' = "no_data"
            /\ pc' = "done"
            /\ UNCHANGED <<storage, save_status>>
       ELSE \* the print of line 363 raised
            /\ pc' = "crashed"
            /\ UNCHANGED <<storage, save_status, report>>
    /\ UNCHANGED <<envVars, idx, all_rows, success_count, processed_count,
                   product_rows, result, sessionVars, failed_steps, visited,
                   delays, flushed, pages>>

Next ==
    \/ ReadInput
    \/ SkipRow
    \/ CreateDriver
    \/ Navigate
    \/ WaitTitle
    \/ ClickTab
    \/ ScrollSection
    \/ ScrollCycles
    \/ ClickExpander
    \/ WaitRows
    \/ Parse
    \/ Teardown
    \/ Collect
    \/ FinalSave

Spec == Init /\ [][Next]_vars

SpecBatch == InitBatch /\ [][Next]_vars

SpecExtract == InitExtract /\ [][Next]_vars

TypeOK ==
    /\ pc \in {"read", "halted", "loop", "get", "title", "tab", "section",
               "cycles", "expander", "rows", "parse", "teardown", "collect",
               "crashed", "done"}
    /\ idx \in 1..(total_rows + 1)
    /\ success_count \in 0..total_rows
    /\ processed_count \in 0..total_rows
    /\ browsers \subseteq 1..total_rows
    /\ profiles \subseteq 1..total_rows
    /\ save_status \in {"none", "ok", "error"}
    /\ stdout \in Encodings

(***************************************************************************)
(* Properties.                                                             *)
(***************************************************************************)
\* a page visit is under way: between the call of extract_product_data and
\* the end of its finally block
InVisit ==
    pc \in {"get", "title", "tab", "section", "cycles", "expander", "rows",
            "parse", "teardown"}

HasUrlColumn == URLCol \in Range(df.columns)

\* the input rows that have a URL, in input order
UrlRows ==
    SelectSeq([i \in 1..total_rows |-> i], LAMBDA i : ~NoUrl(df.rows[i][URLCol]))

\* the document of the page of the latest call of extract_product_data
LastSoup == web[df.rows[visited[Len(visited)]][URLCol]]

NonFitmentPart(r) == [k \in DOMAIN r \ Range(FitmentKeys) |-> r[k]]

\* C1: whenever no page visit is under way, no browser started by the run is
\* running and no profile directory created by the run exists.
C1_TeardownAlwaysRuns == ~InVisit => (browsers = {} /\ profiles = {})

\* C2: when the call ends and nothing but optional steps failed, the call
\* returns rows, not None.
C2_OptionalStepsBestEffort ==
    /\ (pc = "teardown" /\ failed_steps \subseteq OptionalSteps)
          => ~result.is_none
    /\ (pc = "collect" /\ failed_steps \subseteq OptionalSteps)
          => ~product_rows.is_none

\* C3: a page whose creation, navigation, title wait or extraction failed
\* returns None to process_excel_file, which then appends no row, leaves
\* success_count alone and counts the page as processed.
C3_PageFailureYieldsNone ==
    [][/\ (pc = "teardown" /\ failed_steps \ OptionalSteps # {})
             => (pc' = "collect" /\ product_rows'.is_none)
       /\ (pc = "collect" /\ product_rows.is_none)
             => /\ all_rows' = all_rows
                /\ success_count' = success_count
                /\ processed_count' = processed_count + 1]_vars

\* C4: a loop iteration writes the accumulator to the output exactly when
\* its page was extracted successfully and that brought success_count to a
\* positive multiple of 10.
C4_CheckpointOnlyOnTenthSuccess ==
    (pc \in {"loop", "done"} /\ processed_count > 0)
       => (flushed <=> (/\ Truthy(product_rows)
                        /\ success_count > 0
                        /\ success_count % CheckpointEvery = 0))

\* the output holds a prefix of the accumulator with every row of the
\* first 10 * floor(success_count / 10) successful pages
CheckpointCovers ==
    /\ storage.exists
    /\ IsPrefix(storage.rows, all_rows)
    /\ Len(storage.rows) >=
          pages[CheckpointEvery * (success_count \div CheckpointEvery)].last

\* C5 as stated: after at least 10 successful extractions the output always
\* holds the rows of the first 10 * floor(success_count / 10) successful
\* pages, also when a checkpoint write failed.
C5_BoundedLoss == success_count >= CheckpointEvery => CheckpointCovers

\* C6: once the iteration of a row with a URL is over, a delay was slept
\* after it exactly when a later row has a URL.
C6_DelayIffAnotherVisitFollows ==
    HasUrlColumn =>
       \A i \in 1..total_rows :
          (i < idx /\ ~NoUrl(df.rows[i][URLCol]))
             => (i \in delays <=>
                   \E j \in (i + 1)..total_rows : ~NoUrl(df.rows[j][URLCol]))

\* C7: the run never terminates abnormally, the rows visited so far are the
\* first rows with a URL in input order, each once, and at the end all of
\* them have been visited.
C7_BatchNeverAborts ==
    /\ pc # "crashed"
    /\ HasUrlColumn => IsPrefix(visited, UrlRows)
    /\ pc = "done" => visited = UrlRows

\* the rows v returned for a page with fitments: one per fitment, in
\* order, with identical non-fitment fields
ExpandedPerFitment(v, fitments) ==
    (~v.is_none /\ Len(fitments) >= 1) =>
       /\ Len(v.rows) = Len(fitments)
       /\ \A i \in 1..Len(fitments) :
             \A k \in Range(FitmentKeys) :
                k \in DOMAIN v.rows[i] /\ v.rows[i][k] = fitments[i][k]
       /\ \A i, j \in 1..Len(v.rows) :
             NonFitmentPart(v.rows[i]) = NonFitmentPart(v.rows[j])

\* C8: for a page with n >= 1 fitments the call returns n rows, the i-th
\* with the i-th fitment's fields, all with the same non-fitment fields;
\* the same holds of the rows after the passthrough merge.
C8_OneRowPerFitment ==
    /\ pc = "teardown" =>
          ExpandedPerFitment(result, extract_fitment_data(stdout, LastSoup))
    /\ (pc \in {"collect", "loop", "done"} /\ visited # <<>>) =>
          ExpandedPerFitment(product_rows, extract_fitment_data(stdout, LastSoup))

\* two rows of one page, merged with the passthrough columns, that differ
\* in their fitment
C8_Witness ==
    /\ pc = "loop"
    /\ ~product_rows.is_none
    /\ Len(product_rows.rows) = 2
    /\ "Part" \in DOMAIN product_rows.rows[1]
    /\ product_rows.rows[1]["Model"] # product_rows.rows[2]["Model"]

\* C9: for a parsed page without valid fitment row the call returns one
\* row, whose five fitment fields are empty and whose other fields are the
\* filtered product fields.
C9_PlaceholderRow ==
    (pc = "teardown" /\ ~result.is_none
        /\ extract_fitment_data(stdout, LastSoup) = <<>>) =>
       /\ Len(result.rows) = 1
       /\ \A k \in Range(FitmentKeys) :
             k \in DOMAIN result.rows[1] /\ result.rows[1][k] = ""
       /\ NonFitmentPart(result.rows[1]) = FilterAllowed(ProductData(LastSoup))
       /\ DOMAIN NonFitmentPart(result.rows[1]) \subseteq Range(allowed_keys)

\* a page with a fitment table but no valid row was parsed
C9_Witness ==
    /\ pc = "teardown"
    /\ ~result.is_none
    /\ LastSoup.fitment_table.present
    /\ extract_fitment_data(stdout, LastSoup) = <<>>
    /\ Len(result.rows) = 1

\* the rows process_excel_file is to hold for the successful page of
\* input row i
PageRowsOf(i) ==
    MergeRows(ResultRows(stdout, web[df.rows[i][URLCol]]), df.rows[i],
              df.columns)

\* the rows of every successful page, in input order
ExpectedAccumulator == Flatten([j \in 1..Len(pages) |-> PageRowsOf(pages[j].row)])

\* C10: the final step, when rows were accumulated and its write succeeds,
\* leaves in the output the whole accumulator, which is the rows of the
\* successful pages in input order; when no row was accumulated it writes
\* nothing and reports that nothing was extracted.
C10_FinalFlush ==
    [][(pc = "loop" /\ idx > total_rows) =>
          /\ pc' = "done"
          /\ (all_rows # <<>> /\ report' = "saved") =>
                /\ storage' = FileOf(all_rows)
                /\ all_rows = ExpectedAccumulator
                /\ \A j \in 1..(Len(pages) - 1) : pages[j].row < pages[j + 1].row
          /\ (all_rows # <<>>) => report' \in {"saved", "save_error"}
          /\ (all_rows = <<>>) => (storage' = storage /\ report' = "no_data")]_vars

\* C11: with an input table that lacks the URL column no row is processed,
\* no browser session is started, no delay is slept and nothing is written
\* to the output; when pd.read_excel returned the table, the run stops at
\* the column check, with its report and by a return.
C11_MissingColumnStopsRun ==
    (URLCol \notin Range(df.columns)) =>
       /\ df.readable =>
             /\ pc \in {"read", "halted"}
             /\ pc = "halted" => report = "no_column"
       /\ idx = 1
       /\ visited = <<>>
       /\ processed_count = 0
       /\ success_count = 0
       /\ all_rows = <<>>
       /\ browsers = {} /\ profiles = {}
       /\ delays = {}
       /\ storage = NoFile
       /\ save_status = "none"

\* the run has stopped at the column check
C11_Witness ==
    /\ df.readable
    /\ URLCol \notin Range(df.columns)
    /\ total_rows > 0
    /\ pc = "halted"
    /\ report = "no_column"

\* an input cell without URL: missing or the empty string
EmptyCell(u) == u \in {NaN, ""}

\* C12: the iteration of a row whose URL cell is missing or empty starts no
\* browser session, leaves accumulator, counters and output unchanged and
\* goes on with the next row.
C12_SkippedRowHasNoEffect ==
    [][(/\ pc = "loop"
        /\ idx <= total_rows
        /\ EmptyCell(df.rows[idx][URLCol]))
          => /\ idx' = idx + 1
             /\ pc' = "loop"
             /\ UNCHANGED <<all_rows, success_count, processed_count, storage,
                            browsers, profiles, visited, delays, pages>>]_vars

\* a row without URL was skipped after a page had been extracted, and the
\* run went on
C12_Witness ==
    /\ pc = "loop"
    /\ idx > 2
    /\ EmptyCell(df.rows[idx - 1][URLCol])
    /\ all_rows # <<>>
    /\ processed_count = 1
    /\ visited = <<1>>

\* C13: the merge of a loop iteration keeps every extracted field of every
\* row, adds an input column with the input row's value exactly when the
\* row has no field of that name, and leaves every input column name a key
\* of every row.
C13_PassthroughPrecedence ==
    [][(pc = "collect" /\ Truthy(product_rows)) =>
          /\ Len(product_rows'.rows) = Len(product_rows.rows)
          /\ \A i \in 1..Len(product_rows.rows) :
                LET before == product_rows.rows[i]
                    after == product_rows'.rows[i]
                IN /\ DOMAIN after = DOMAIN before \cup Range(df.columns)
                   /\ \A k \in DOMAIN before : after[k] = before[k]
                   /\ \A c \in Range(df.columns) \ DOMAIN before :
                         after[c] = df.rows[idx][c]
                   /\ all_rows'[Len(all_rows) + i] = after]_vars

\* a merged placeholder row: the empty Year of the page shadows the input
\* column Year, and the input columns SKU and Part were added
C13_Witness ==
    /\ pc = "loop"
    /\ Truthy(product_rows)
    /\ product_rows.rows[1]["Year"] = ""
    /\ "SKU" \in DOMAIN product_rows.rows[1]
    /\ product_rows.rows[1]["SKU"] = "IN-SKU"
    /\ product_rows.rows[1]["Part"] = "P1"
    /\ product_rows.rows[1][URLCol] = UrlB

\* C14: at most one browser and one profile directory of the run exist at
\* any time, they are those of the current visit, and none exists when a
\* new visit is about to start.
C14_NoOverlappingSessions ==
    /\ Cardinality(browsers) <= 1
    /\ Cardinality(profiles) <= 1
    /\ (pc \in {"get", "title", "tab", "section", "cycles", "expander",
                "rows", "parse"})
          => (browsers = {idx} /\ profiles = {idx})
    /\ pc = "loop" => (browsers = {} /\ profiles = {})

\* the fitment row elements of a document, in document order: those of the
\* table body when the table has one, else those of the table
FitmentRowsOf(soup) ==
    IF ~soup.fitment_table.present THEN <<>>
    ELSE IF soup.fitment_table.tbody
    THEN SelectSeq(soup.fitment_table.rows, LAMBDA r : r.in_body)
    ELSE soup.fitment_table.rows

HasCells(r) == r.year # Absent /\ r.make # Absent /\ r.model # Absent

\* the positions of the row elements with year, make and model cell
ValidIdx(rows) == {i \in 1..Len(rows) : HasCells(rows[i])}

\* the number of such row elements up to position i
Rank(rows, i) == Cardinality({j \in ValidIdx(rows) : j <= i})

CellText(cell) == IF cell = Absent THEN "" ELSE Strip(cell)

FitmentPart(r) == [k \in Range(FitmentKeys) |-> r[k]]

\* C15: extract_fitment_data returns one record for each fitment row with
\* year, make and model cell, in document order and without merging equal
\* ones, the texts of absent trim and engine cells being empty; the other
\* rows give no record and a missing table gives the empty list. The rows
\* returned by extract_product_data carry these records in the same order.
C15_FitmentsAreOrderedFilter ==
    (pc = "teardown" /\ ~result.is_none) =>
       LET rows == FitmentRowsOf(LastSoup)
           fitments == extract_fitment_data(stdout, LastSoup)
       IN /\ Len(fitments) = Cardinality(ValidIdx(rows))
          /\ \A i \in ValidIdx(rows) :
                LET rec == fitments[Rank(rows, i)]
                IN /\ DOMAIN rec = Range(FitmentKeys)
                   /\ rec["Year"] = Strip(rows[i].year)
                   /\ rec["Make"] = Strip(rows[i].make)
                   /\ rec["Model"] = Strip(rows[i].model)
                   /\ rec["Body & Trim"] = CellText(rows[i].trim)
                   /\ rec["Engine & Transmission"] = CellText(rows[i].engine)
          /\ ~LastSoup.fitment_table.present => fitments = <<>>
          /\ fitments # <<>> =>
                /\ Len(result.rows) = Len(fitments)
                /\ \A k \in 1..Len(fitments) :
                      FitmentPart(result.rows[k]) = fitments[k]

\* the <li> items of all field lists of a document, in document order
ItemsOf(soup) == Flatten(soup.field_lists)

\* the label of an item as the scan sees it
LabelOf(item) == CleanLabel(item.label)

\* a label that must never become a field: empty, digits only, or
\* starting with '$'
BadLabel(label) == label = "" \/ IsDigits(label) \/ StartsWithDollar(label)

\* item j has a label and a value element and its label is not bad
Accepted(items, j) ==
    /\ items[j].label # Absent
    /\ items[j].value # Absent
    /\ ~BadLabel(LabelOf(items[j]))

AcceptedIdx(items) == {j \in 1..Len(items) : Accepted(items, j)}

\* item j is the k-th accepted item with its label
Occurrence(items, j) ==
    Cardinality({i \in AcceptedIdx(items) :
                    i <= j /\ LabelOf(items[i]) = LabelOf(items[j])})

\* the bare label for the first occurrence, then 'label k'
NumberedName(items, j) ==
    IF Occurrence(items, j) = 1 THEN LabelOf(items[j])
    ELSE LabelOf(items[j]) \o " " \o ToString(Occurrence(items, j))

\* the dict `data` of a page once its first j items have been scanned
DataAfter(soup, j) ==
    ScanItems(SubSeq(ItemsOf(soup), 1, j),
              [data |-> SingletonFields(soup), tracker |-> [k \in {} |-> 0]]).data

\* the fields assigned from the blocks after the field lists
BlockNames(soup) ==
    (IF soup.description.present THEN {"Description"} ELSE {})
    \cup (IF soup.notes # <<>> THEN {"Notes"} ELSE {})
    \cup (IF soup.msrp # Absent THEN {"MSRP"} ELSE {})
    \cup (IF soup.sale_price # Absent THEN {"Sale Price"} ELSE {})

\* the field name expected for each of the first j items, Absent for an item
\* that is not accepted
RECURSIVE NamesUpTo(_, _)
NamesUpTo(items, j) ==
    IF j = 0 THEN <<>>
    ELSE Append(NamesUpTo(items, j - 1),
                IF Accepted(items, j) THEN NumberedName(items, j) ELSE Absent)

\* the dict `data` before the first item and after each of the first j items
RECURSIVE DataUpTo(_, _)
DataUpTo(soup, j) ==
    IF j = 0 THEN <<DataAfter(soup, 0)>>
    ELSE Append(DataUpTo(soup, j - 1), DataAfter(soup, j))

\* C16: the scan of a page stores the k-th accepted pair with label L under
\* L when k = 1 and under 'L k' when k >= 2, counting within the page only,
\* and changes no other field; an allow-listed field that nothing assigns
\* later has that value in every returned row.
C16_LabelCollisionNumbering ==
    (pc = "teardown" /\ ~result.is_none) =>
       \A items \in {ItemsOf(LastSoup)} :
       \A names \in {NamesUpTo(items, Len(items))} :
       \A data \in {DataUpTo(LastSoup, Len(items))} :
          \A j \in 1..Len(items) :
             names[j] # Absent =>
                LET name == names[j]
                    d0 == data[j]
                    d1 == data[j + 1]
                IN /\ DOMAIN d1 = DOMAIN d0 \cup {name}
                   /\ d1[name] = Strip(items[j].value)
                   /\ \A k \in DOMAIN d0 \ {name} : d1[k] = d0[k]
                   /\ (/\ name \in Range(allowed_keys) \ BlockNames(LastSoup)
                       /\ \A i \in (j + 1)..Len(items) : names[i] # name)
                         => \A n \in 1..Len(result.rows) :
                               result.rows[n][name] = Strip(items[j].value)

\* a page with two 'Description' pairs in different field lists gave the
\* fields Description and Description 2
C16_Witness ==
    /\ pc = "teardown"
    /\ ~result.is_none
    /\ ~LastSoup.description.present
    /\ Len(LastSoup.field_lists) = 2
    /\ "Description 2" \in DOMAIN result.rows[1]
    /\ result.rows[1]["Description"] = "v1"
    /\ result.rows[1]["Description 2"] = "v2"

\* C17: every key of every row returned by extract_product_data is an
\* allow-listed product field or a fitment field; no key is empty, digits
\* only or starting with '$', and the value of a pair with such a label is
\* in no row.
C17_AllowListAndLabelFilter ==
    (pc \in {"teardown", "collect"} /\ ~result.is_none) =>
       \A n \in 1..Len(result.rows) :
          /\ DOMAIN result.rows[n] \subseteq Range(allowed_keys) \cup Range(FitmentKeys)
          /\ \A k \in DOMAIN result.rows[n] : ~BadLabel(k)
          /\ \A j \in 1..Len(ItemsOf(LastSoup)) :
                LET item == ItemsOf(LastSoup)[j]
                IN (item.label # Absent /\ item.value # Absent
                       /\ BadLabel(LabelOf(item)))
                      => \A k \in DOMAIN result.rows[n] :
                            result.rows[n][k] # Strip(item.value)

\* a page with a digits-only label, a '$' label and a label outside the
\* allow-list was parsed: none of them is a field of the row
C17_Witness ==
    /\ pc = "teardown"
    /\ ~result.is_none
    /\ {LabelOf(ItemsOf(LastSoup)[j]) : j \in AcceptedIdx(ItemsOf(LastSoup))}
          = {"SKU 2"}
    /\ \E j \in 1..Len(ItemsOf(LastSoup)) : ItemsOf(LastSoup)[j].label = "42"
    /\ \E j \in 1..Len(ItemsOf(LastSoup)) : ItemsOf(LastSoup)[j].label = "$5"
    /\ DOMAIN result.rows[1] =
          {"Product Title", "Product Subtitle", "Manufacturer Info"}
             \cup Range(FitmentKeys)

\* C18: the accepted pairs, the three singleton fields and the blocks of a
\* page are stored under pairwise different field names, and each of them
\* still has its own value when the scan of the page is over.
C18_NoValueLost ==
    (pc = "teardown" /\ ~result.is_none) =>
       LET items == ItemsOf(LastSoup)
           data == ProductData(LastSoup)
           names == [j \in AcceptedIdx(items) |-> NumberedName(items, j)]
       IN /\ \A i, j \in AcceptedIdx(items) : i # j => names[i] # names[j]
          /\ \A j \in AcceptedIdx(items) :
                /\ names[j] \notin DOMAIN SingletonFields(LastSoup)
                /\ names[j] \notin BlockNames(LastSoup)
                /\ data[names[j]] = Strip(items[j].value)
          /\ \A k \in DOMAIN SingletonFields(LastSoup) :
                data[k] = SingletonFields(LastSoup)[k]

\* the steps whose failure reaches the page-level `except Exception`
PageLevelSteps == {"create", "get", "title", "cycles", "parse"}

\* C19: extract_product_data returns None or a non-empty list, never an
\* empty one; a page visit that did not fail at page level returns rows, a
\* visit that did returns None; the loop iteration increments success_count
\* and adds at least one row to the accumulator exactly when the visit did
\* not fail at page level, and nothing else changes either of them.
C19_SuccessIsNonNoneResult ==
    [][/\ ~result'.is_none => result'.rows # <<>>
       /\ ~product_rows'.is_none => product_rows'.rows # <<>>
       /\ pc = "teardown" =>
             /\ pc' = "collect"
             /\ product_rows'.is_none <=> failed_steps \cap PageLevelSteps # {}
       /\ IF pc = "collect" /\ ~product_rows.is_none
          THEN /\ success_count' = success_count + 1
               /\ Len(all_rows') >= Len(all_rows) + 1
               /\ IsPrefix(all_rows, all_rows')
          ELSE /\ success_count' = success_count
               /\ all_rows' = all_rows]_vars

\* the input rows with a URL among the first n rows
UrlRowsUpTo(n) ==
    {i \in 1..total_rows : i <= n /\ ~EmptyCell(df.rows[i][URLCol])}

\* the input rows that have rows in the accumulator
RowsWithOutput == {all_rows[j]["Part"] : j \in 1..Len(all_rows)}

\* C20: success_count <= processed_count <= number of rows with a URL
\* iterated so far, the accumulator holds at least success_count rows, and
\* at the end of the input processed_count is the number of rows with a
\* URL and success_count the number of them that returned rows.
C20_CounterInvariant ==
    HasUrlColumn =>
       /\ success_count <= processed_count
       /\ processed_count <= Cardinality(UrlRowsUpTo(idx))
       /\ Len(all_rows) >= success_count
       /\ pc = "done" =>
             /\ processed_count = Cardinality(UrlRowsUpTo(total_rows))
             /\ success_count = Cardinality(RowsWithOutput)
             /\ success_count = Len(pages)

====
